---- MODULE Spec2Model ----
(***************************************************************************)
(* Model of the WhatsApp Flows data-exchange codec (src/newhelpers.js:     *)
(* loadPrivateKey, unwrapFlowRequest, wrapFlowResponse) and of the two     *)
(* Express handlers that use it (src/newapp.js: /flows/data-exchange and   *)
(* /flows/complete).                                                       *)
(*                                                                         *)
(* Buffers are sequences of bytes 0..255.  A JavaScript string that holds  *)
(* base64 text is a sequence of character classes: 0..63 is the sextet a   *)
(* legal character stands for, 64 is '=', 65 is any character outside the  *)
(* alphabet.  A string that holds text is a sequence of code points.       *)
(* The cipher, the MAC and the key wrap are keyed toy functions that are   *)
(* injective on the inputs drawn here, standing for the ideal primitives.  *)
(***************************************************************************)
EXTENDS Integers, Sequences, FiniteSets, TLC

\* ------------------------------------------------------------ bytes

\* a buffer or an array given element by element, as the sequence of them
Bytes(f) == SubSeq(f, 1, Len(f))

RECURSIVE XorBits(_, _, _)
XorBits(a, b, n) ==
  IF n = 0 THEN 0
  ELSE (((a % 2) + (b % 2)) % 2) + 2 * XorBits(a \div 2, b \div 2, n - 1)

\* b ^ 0xff on the elements of a Uint8Array: the low eight bits of the XOR
XorByte(a, b) == XorBits(a, b, 8)

\* Buffer.prototype.slice / subarray (start, end) with JavaScript's index
\* rules: a negative index counts from the end, and both are clamped to
\* 0..length.  The result holds the bytes start+1 .. end (1-based).
ClampIndex(i, len) ==
  IF i < 0 THEN (IF len + i < 0 THEN 0 ELSE len + i)
  ELSE IF i > len THEN len ELSE i

SubarrayOf(buf, start, end) ==
  LET s == ClampIndex(start, Len(buf))
      e == ClampIndex(end, Len(buf))
  IN  IF e <= s THEN << >> ELSE SubSeq(buf, s + 1, e)

\* ------------------------------------------------------------ base64

\* The legal characters of a base64 string up to its first '=', which is
\* where Node's decoder stops; characters outside the alphabet are skipped.
B64Sextets(s) ==
  LET pads == {i \in 1..Len(s) : s[i] = 64}
      stop == IF pads = {} THEN Len(s) + 1
              ELSE CHOOSE i \in pads : \A j \in pads : i <= j
      IsLegal(c) == c < 64
  IN  SelectSeq(SubSeq(s, 1, stop - 1), IsLegal)

\* four sextets are three bytes; three left over are two bytes, two are
\* one byte, and one alone is dropped
B64Groups(q) ==
  Bytes([j \in 1..((3 * Len(q)) \div 4) |->
     LET g == 4 * ((j - 1) \div 3)
         pos == (j - 1) % 3
     IN  IF pos = 0 THEN (q[g + 1] * 4) + (q[g + 2] \div 16)
         ELSE IF pos = 1 THEN ((q[g + 2] % 16) * 16) + (q[g + 3] \div 4)
         ELSE ((q[g + 3] % 4) * 64) + q[g + 4]])

\* Buffer.from(str, 'base64')
BufferFromBase64(s) == B64Groups(B64Sextets(s))

\* buf.toString('base64'): standard alphabet, padded
BufferToBase64(b) ==
  LET At(i) == IF i <= Len(b) THEN b[i] ELSE 0 IN
  Bytes([j \in 1..(4 * ((Len(b) + 2) \div 3)) |->
     LET g == 3 * ((j - 1) \div 4)
         pos == (j - 1) % 4
     IN  IF pos = 0 THEN At(g + 1) \div 4
         ELSE IF pos = 1 THEN ((At(g + 1) % 4) * 16) + (At(g + 2) \div 16)
         ELSE IF pos = 2 THEN
              (IF g + 2 > Len(b) THEN 64
               ELSE ((At(g + 2) % 16) * 4) + (At(g + 3) \div 64))
         ELSE (IF g + 3 > Len(b) THEN 64 ELSE At(g + 3) % 64)])

\* ------------------------------------------------------------ JSON

\* JSON values: <<"null">>, <<"bool", b>>, <<"num", n>> (n a natural),
\* <<"str", code points>>, <<"arr", <<v, ...>>>>,
\* <<"obj", << <<key code points, v>>, ... >>>> (members in insertion order).
JNull == << "null" >>
JBool(b) == << "bool", b >>
JNum(n) == << "num", n >>
JStr(s) == << "str", s >>
JArr(vs) == << "arr", vs >>
JObj(ms) == << "obj", ms >>

RECURSIVE Digits(_)
Digits(n) == IF n < 10 THEN << 48 + n >> ELSE Digits(n \div 10) \o << 48 + (n % 10) >>

\* JSON.stringify of a value, then Buffer.from(text, 'utf8').  Strings hold
\* code points 32..126 other than '"' and '\', which need no escape and are
\* one byte each.
RECURSIVE JsonStringify(_), StringifyElems(_), StringifyMembers(_)
JsonStringify(v) ==
  CASE v[1] = "null" -> << 110, 117, 108, 108 >>
    [] v[1] = "bool" -> IF v[2] THEN << 116, 114, 117, 101 >>
                        ELSE << 102, 97, 108, 115, 101 >>
    [] v[1] = "num"  -> Digits(v[2])
    [] v[1] = "str"  -> << 34 >> \o v[2] \o << 34 >>
    [] v[1] = "arr"  -> << 91 >> \o StringifyElems(v[2]) \o << 93 >>
    [] v[1] = "obj"  -> << 123 >> \o StringifyMembers(v[2]) \o << 125 >>

StringifyElems(vs) ==
  IF vs = << >> THEN << >>
  ELSE IF Len(vs) = 1 THEN JsonStringify(vs[1])
  ELSE JsonStringify(vs[1]) \o << 44 >> \o StringifyElems(Tail(vs))

StringifyMembers(ms) ==
  IF ms = << >> THEN << >>
  ELSE LET one == << 34 >> \o ms[1][1] \o << 34, 58 >> \o JsonStringify(ms[1][2])
       IN  IF Len(ms) = 1 THEN one
           ELSE one \o << 44 >> \o StringifyMembers(Tail(ms))

\* clear.toString('utf8'): a byte below 128 is its code point; a byte that
\* is not part of a well-formed sequence becomes U+FFFD (multi-byte
\* sequences are not drawn here).
Utf8ToString(bytes) ==
  Bytes([i \in 1..Len(bytes) |-> IF bytes[i] < 128 THEN bytes[i] ELSE 65533])

ParseFail == [ok |-> FALSE, v |-> JNull, next |-> 0]
ParseOk(v, next) == [ok |-> TRUE, v |-> v, next |-> next]

IsWs(c) == c \in {32, 9, 10, 13}
IsDigit(c) == c >= 48 /\ c <= 57

RECURSIVE SkipWs(_, _)
SkipWs(t, p) == IF p <= Len(t) /\ IsWs(t[p]) THEN SkipWs(t, p + 1) ELSE p

HasAt(t, p, lit) ==
  /\ p + Len(lit) - 1 <= Len(t)
  /\ \A i \in 1..Len(lit) : t[p + i - 1] = lit[i]

\* the position of the closing quote of a string whose first character is
\* at p, or 0 (unterminated, a control character, or an escape: escapes
\* are not drawn here and are rejected)
RECURSIVE StringEnd(_, _)
StringEnd(t, p) ==
  IF p > Len(t) THEN 0
  ELSE IF t[p] = 34 THEN p
  ELSE IF t[p] < 32 \/ t[p] = 92 THEN 0
  ELSE StringEnd(t, p + 1)

RECURSIVE NumberEnd(_, _)
NumberEnd(t, p) == IF p <= Len(t) /\ IsDigit(t[p]) THEN NumberEnd(t, p + 1) ELSE p

RECURSIVE NumberValue(_, _, _)
NumberValue(t, p, e) ==
  IF p >= e THEN 0 ELSE (NumberValue(t, p, e - 1) * 10) + (t[e - 1] - 48)

\* Recursive descent over the text t from position p: the value and the
\* position after it.
RECURSIVE ParseValue(_, _), ParseElems(_, _, _), ParseMembers(_, _, _)
ParseValue(t, p0) ==
  LET p == SkipWs(t, p0) IN
  IF p > Len(t) THEN ParseFail
  ELSE IF HasAt(t, p, << 110, 117, 108, 108 >>) THEN ParseOk(JNull, p + 4)
  ELSE IF HasAt(t, p, << 116, 114, 117, 101 >>) THEN ParseOk(JBool(TRUE), p + 4)
  ELSE IF HasAt(t, p, << 102, 97, 108, 115, 101 >>) THEN ParseOk(JBool(FALSE), p + 5)
  ELSE IF IsDigit(t[p]) THEN
       LET e == NumberEnd(t, p) IN
       \* a leading zero is a number of its own
       IF t[p] = 48 THEN ParseOk(JNum(0), p + 1)
       ELSE ParseOk(JNum(NumberValue(t, p, e)), e)
  ELSE IF t[p] = 34 THEN
       LET e == StringEnd(t, p + 1) IN
       IF e = 0 THEN ParseFail ELSE ParseOk(JStr(SubSeq(t, p + 1, e - 1)), e + 1)
  ELSE IF t[p] = 91 THEN
       LET q == SkipWs(t, p + 1) IN
       IF q <= Len(t) /\ t[q] = 93 THEN ParseOk(JArr(<< >>), q + 1)
       ELSE ParseElems(t, q, << >>)
  ELSE IF t[p] = 123 THEN
       LET q == SkipWs(t, p + 1) IN
       IF q <= Len(t) /\ t[q] = 125 THEN ParseOk(JObj(<< >>), q + 1)
       ELSE ParseMembers(t, q, << >>)
  ELSE ParseFail

ParseElems(t, p, acc) ==
  LET r == ParseValue(t, p) IN
  IF ~r.ok THEN ParseFail
  ELSE LET q == SkipWs(t, r.next) IN
       IF q > Len(t) THEN ParseFail
       ELSE IF t[q] = 93 THEN ParseOk(JArr(Append(acc, r.v)), q + 1)
       ELSE IF t[q] = 44 THEN ParseElems(t, q + 1, Append(acc, r.v))
       ELSE ParseFail

\* a later member with the key of an earlier one takes its place
PutMember(ms, k, v) ==
  IF \E i \in 1..Len(ms) : ms[i][1] = k
  THEN [i \in 1..Len(ms) |-> IF ms[i][1] = k THEN << k, v >> ELSE ms[i]]
  ELSE Append(ms, << k, v >>)

ParseMembers(t, p0, acc) ==
  LET p == SkipWs(t, p0) IN
  IF p > Len(t) \/ t[p] # 34 THEN ParseFail
  ELSE LET e == StringEnd(t, p + 1) IN
       IF e = 0 THEN ParseFail
       ELSE LET c == SkipWs(t, e + 1) IN
            IF c > Len(t) \/ t[c] # 58 THEN ParseFail
            ELSE LET r == ParseValue(t, c + 1) IN
                 IF ~r.ok THEN ParseFail
                 ELSE LET q == SkipWs(t, r.next)
                          ms == PutMember(acc, SubSeq(t, p + 1, e - 1), r.v)
                      IN  IF q > Len(t) THEN ParseFail
                          ELSE IF t[q] = 125 THEN ParseOk(JObj(ms), q + 1)
                          ELSE IF t[q] = 44 THEN ParseMembers(t, q + 1, ms)
                          ELSE ParseFail

\* JSON.parse(text): the whole text is one value, or it throws
JsonParse(t) ==
  LET r == ParseValue(t, 1) IN
  IF r.ok /\ SkipWs(t, r.next) = Len(t) + 1 THEN [ok |-> TRUE, v |-> r.v]
  ELSE [ok |-> FALSE, v |-> JNull]

\* payload.name: undefined (absent) for a value that is no object or has
\* no such member; the read throws only when the value is null
HasMember(v, k) == v[1] = "obj" /\ \E i \in 1..Len(v[2]) : v[2][i][1] = k
Member(v, k) == (CHOOSE m \in {v[2][i] : i \in 1..Len(v[2])} : m[1] = k)[2]

\* ------------------------------------------------------------ crypto

\* the cipher's parameters: 'aes-128-gcm' has a 16-byte key, and the code
\* takes 16 bytes of tag and at most 16 bytes of IV
AesKeyLen == 16
TagLen == 16
IvLen == 16
Complement == 255

RECURSIVE WeightedOver(_, _, _)
WeightedOver(s, lo, hi) ==
  IF lo > hi THEN 0
  ELSE IF lo = hi THEN (lo + 1) * s[lo]
  ELSE WeightedOver(s, lo, (lo + hi) \div 2) + WeightedOver(s, ((lo + hi) \div 2) + 1, hi)

\* the sum of the bytes of s, byte i weighted i + 1
Weighted(s) == WeightedOver(s, 1, Len(s))

\* counter-mode key stream byte i, from what (key, iv) seed
KeySeed(k, iv) == Weighted(k) + (3 * Weighted(iv)) + Len(iv)
KeyStream(seed, i) == (seed + (7 * i)) % 256

\* cipher.update(plaintext) / decipher.update(ciphertext)
GcmEncrypt(k, iv, pt) ==
  LET seed == KeySeed(k, iv) IN
  Bytes([i \in 1..Len(pt) |-> (pt[i] + KeyStream(seed, i)) % 256])
GcmDecrypt(k, iv, ct) ==
  LET seed == KeySeed(k, iv) IN
  Bytes([i \in 1..Len(ct) |-> (ct[i] + 256 - KeyStream(seed, i)) % 256])

\* the 16-byte authentication tag of a ciphertext under (key, iv): a
\* polynomial over a prime field, which no single-bit change leaves alone
GcmTag(k, iv, ct) ==
  LET h == ((31 * Weighted(k)) + (17 * Weighted(iv)) + Weighted(ct)
            + (7 * Len(iv)) + Len(ct)) % 65521
  IN  Bytes([j \in 1..16 |-> IF j = 1 THEN h % 256
                             ELSE IF j = 2 THEN h \div 256
                             ELSE (h + (37 * j)) % 256])

\* crypto.createDecipheriv / createCipheriv('aes-128-gcm', key, iv): the
\* key is 16 bytes and the IV is not empty, or it throws
CipherInitError(k, iv) ==
  IF Len(k) # AesKeyLen THEN "Invalid key length"
  ELSE IF Len(iv) = 0 THEN "Invalid initialization vector"
  ELSE "none"

\* decipher.setAuthTag(tag) with no authTagLength option: the lengths GCM
\* allows, or it throws
ValidGcmTagLength(n) == n \in {4, 8, 12, 13, 14, 15, 16}

GcmFinalNoVerify(k, iv, ct, tag) == TRUE

\* decipher.final(): the tag given is the leading bytes of the computed one
GcmFinal(k, iv, ct, tag) == tag = SubSeq(GcmTag(k, iv, ct), 1, Len(tag))

\* RSA key pairs are named; a wrapped key is a header byte naming the pair
\* followed by the masked key bytes.
PairHeader(pair) == IF pair = "srv" THEN 83 ELSE 79

\* the client's crypto.publicEncrypt (OAEP, SHA-256) under a pair's public key
RsaWrap(pair, k) ==
  << PairHeader(pair) >> \o [i \in 1..Len(k) |-> (k[i] + 101) % 256]

\* The key source: process.env.FLOWPRIVATEKEYPATH (set or not), the file
\* it names, and process.env.FLOWPRIVATEKEYPASSPHRASE.
\*   file: "absent" | "garbage" | "srv" | "srvEncrypted" | "other"
\*   pass: "" (unset) | "right" | "wrong"
Envs ==
  { [path |-> TRUE,  file |-> "srv",          pass |-> ""],
    [path |-> TRUE,  file |-> "srvEncrypted", pass |-> "right"],
    [path |-> TRUE,  file |-> "srvEncrypted", pass |-> "wrong"],
    [path |-> TRUE,  file |-> "other",        pass |-> ""],
    [path |-> TRUE,  file |-> "garbage",      pass |-> ""],
    [path |-> TRUE,  file |-> "absent",       pass |-> ""],
    [path |-> FALSE, file |-> "srv",          pass |-> ""] }

\* the key source holds the server's private key and opens
KeyAvailable(e) ==
  /\ e.path
  /\ \/ e.file = "srv"
     \/ e.file = "srvEncrypted" /\ e.pass = "right"

\* loadPrivateKey(): [error, reads, key, passphrase]; reads counts the
\* calls of fs.readFileSync
loadPrivateKey(e) ==
  IF ~e.path THEN
       [error |-> "FLOWPRIVATEKEYPATH not set", reads |-> 0, key |-> "", passphrase |-> ""]
  ELSE IF e.file = "absent" THEN
       [error |-> "ENOENT", reads |-> 1, key |-> "", passphrase |-> ""]
  ELSE [error |-> "none", reads |-> 1, key |-> e.file, passphrase |-> e.pass]

\* crypto.privateDecrypt({key, passphrase, padding: OAEP, oaepHash: sha256},
\* encKey): [error, aesKey].  It throws when the key does not parse or open,
\* and when the OAEP padding does not check under this private key.
privateDecrypt(key, passphrase, encKey) ==
  LET pair == IF key = "srv" \/ (key = "srvEncrypted" /\ passphrase = "right") THEN "srv"
              ELSE IF key = "other" THEN "other"
              ELSE "none"
  IN  IF pair = "none" THEN [error |-> "key decode failed", aesKey |-> << >>]
      ELSE IF encKey = << >> \/ encKey[1] # PairHeader(pair) THEN
           [error |-> "oaep decoding error", aesKey |-> << >>]
      ELSE [error |-> "none",
            aesKey |-> Bytes([i \in 1..(Len(encKey) - 1) |-> (encKey[i + 1] + 155) % 256])]

\* ------------------------------------------------------------ request body

\* A property of the parsed body: undefined, or a string
Undefined == [def |-> FALSE, s |-> << >>]
Str(s) == [def |-> TRUE, s |-> s]
Truthy(f) == f.def /\ f.s # << >>

\* a || b
OrElse(a, b) == IF Truthy(a) THEN a ELSE b

\* body.data?.name: body.data is << >> when undefined, else << object >>
DataField(body, name) == IF body.data = << >> THEN Undefined ELSE body.data[1][name]

\* body.name || body.data?.name
RequestField(body, name) == OrElse(body.top[name], DataField(body, name))

\* ------------------------------------------------------------ unwrapFlowRequest

FieldsMissingAll(encryptedFlowData, encryptedAesKey, initialVector) ==
  ~Truthy(encryptedFlowData) /\ ~Truthy(encryptedAesKey) /\ ~Truthy(initialVector)

\* !encryptedFlowData || !encryptedAesKey || !initialVector
FieldsMissing(encryptedFlowData, encryptedAesKey, initialVector) ==
  ~Truthy(encryptedFlowData) \/ ~Truthy(encryptedAesKey) \/ ~Truthy(initialVector)

\* Buffer.from(initialVector, 'base64').slice(0, 16)
IvOfRequest(initialVector) == SubarrayOf(BufferFromBase64(initialVector), 0, IvLen)

TagOfWrongEnd(encData) == SubarrayOf(encData, 0, TagLen)

\* encData.subarray(encData.length - 16)
TagOf(encData) == SubarrayOf(encData, Len(encData) - TagLen, Len(encData))

\* encData.subarray(0, encData.length - 16)
CiphertextOf(encData) == SubarrayOf(encData, 0, Len(encData) - TagLen)

\* What a call of unwrapFlowRequest did.  status "ok": it returned ret[1] =
\* {payload, aesKey, iv}; status "error": it threw error and ret is empty.
\* ops lists the calls it made, in order; reads counts fs.readFileSync;
\* key, iv, tag and ciphertext are what it handed to the decipher (as far
\* as it got).
Thrown(err, ops, reads, key, iv, tag, ct) ==
  [status |-> "error", error |-> err, ret |-> << >>, ops |-> ops, reads |-> reads,
   key |-> key, iv |-> iv, tag |-> tag, ciphertext |-> ct]

Returned(payload, aesKey, iv, ops, reads, tag, ct) ==
  [status |-> "ok", error |-> "none",
   ret |-> << [payload |-> payload, aesKey |-> aesKey, iv |-> iv] >>,
   ops |-> ops, reads |-> reads, key |-> aesKey, iv |-> iv, tag |-> tag, ciphertext |-> ct]

unwrapFlowRequest(body, e) ==
  LET encryptedFlowData == RequestField(body, "encryptedFlowData")
      encryptedAesKey == RequestField(body, "encryptedAesKey")
      initialVector == RequestField(body, "initialVector")
  IN
  IF FieldsMissing(encryptedFlowData, encryptedAesKey, initialVector)
  THEN Thrown("Missing encrypted fields", << >>, 0, << >>, << >>, << >>, << >>)
  ELSE
  LET encKey == BufferFromBase64(encryptedAesKey.s)
      encData == BufferFromBase64(encryptedFlowData.s)
      ivReq == IvOfRequest(initialVector.s)
      loaded == loadPrivateKey(e)
      ops1 == IF loaded.reads = 0 THEN << "loadPrivateKey" >>
              ELSE << "loadPrivateKey", "readFileSync" >>
  IN
  IF loaded.error # "none"
  THEN Thrown(loaded.error, ops1, loaded.reads, << >>, << >>, << >>, << >>)
  ELSE
  LET unwrapped == privateDecrypt(loaded.key, loaded.passphrase, encKey)
      ops2 == Append(ops1, "privateDecrypt")
  IN
  IF unwrapped.error # "none"
  THEN Thrown(unwrapped.error, ops2, loaded.reads, << >>, << >>, << >>, << >>)
  ELSE
  LET aesKey == unwrapped.aesKey
      tag == TagOf(encData)
      ciphertext == CiphertextOf(encData)
      ops3 == Append(ops2, "createDecipheriv")
      ops4 == Append(ops3, "setAuthTag")
      ops5 == ops4 \o << "update", "final" >>
  IN
  IF CipherInitError(aesKey, ivReq) # "none"
  THEN Thrown(CipherInitError(aesKey, ivReq), ops3, loaded.reads, aesKey, ivReq, << >>, << >>)
  ELSE IF ~ValidGcmTagLength(Len(tag))
  THEN Thrown("Invalid authentication tag length", ops4, loaded.reads, aesKey, ivReq, tag, << >>)
  ELSE IF ~GcmFinal(aesKey, ivReq, ciphertext, tag)
  THEN Thrown("Unsupported state or unable to authenticate data",
              ops5, loaded.reads, aesKey, ivReq, tag, ciphertext)
  ELSE
  LET clear == GcmDecrypt(aesKey, ivReq, ciphertext)
      parsed == JsonParse(Utf8ToString(clear))
      ops6 == Append(ops5, "JSON.parse")
  IN
  IF ~parsed.ok
  THEN Thrown("SyntaxError", ops6, loaded.reads, aesKey, ivReq, tag, ciphertext)
  ELSE Returned(parsed.v, aesKey, ivReq, ops6, loaded.reads, tag, ciphertext)

\* ------------------------------------------------------------ wrapFlowResponse

ResponseIvUnchanged(ivFromRequest) == ivFromRequest

\* Buffer.from(ivFromRequest.map((b) => b ^ 0xff))
ResponseIv(ivFromRequest) ==
  Bytes([i \in 1..Len(ivFromRequest) |-> XorByte(ivFromRequest[i], Complement)])

\* What a call of wrapFlowResponse did.  status "ok": it returned ret[1] =
\* {encryptedFlowData, initialVector} (base64 strings); nonce is the IV it
\* gave the cipher.
wrapFlowResponse(obj, aesKey, ivFromRequest) ==
  LET respBytes == JsonStringify(obj)
      ivResp == ResponseIv(ivFromRequest)
  IN
  IF CipherInitError(aesKey, ivResp) # "none"
  THEN [status |-> "error", error |-> CipherInitError(aesKey, ivResp),
        ret |-> << >>, nonce |-> << >>]
  ELSE
  LET enc == GcmEncrypt(aesKey, ivResp, respBytes)
      tag == GcmTag(aesKey, ivResp, enc)
      encPlusTag == enc \o tag
  IN  [status |-> "ok", error |-> "none",
       ret |-> << [encryptedFlowData |-> BufferToBase64(encPlusTag),
                   initialVector |-> BufferToBase64(ivResp)] >>,
       nonce |-> ivResp]

\* ------------------------------------------------------------ the client

\* The request a client that mirrors the server builds from a clear text,
\* a symmetric key, an IV and the public key of an RSA pair.
ClientEncData(pt, k, r) ==
  LET ct == GcmEncrypt(k, r, pt) IN ct \o GcmTag(k, r, ct)

NoFields ==
  [encryptedFlowData |-> Undefined, encryptedAesKey |-> Undefined, initialVector |-> Undefined]

EnvelopeOf(encData, encKey, iv) ==
  [encryptedFlowData |-> Str(BufferToBase64(encData)),
   encryptedAesKey |-> Str(BufferToBase64(encKey)),
   initialVector |-> Str(BufferToBase64(iv))]

ClientRequest(v, k, r, pair) ==
  [top |-> EnvelopeOf(ClientEncData(JsonStringify(v), k, r), RsaWrap(pair, k), r),
   data |-> << >>]

\* one bit of one byte changed
FlipBit(buf, p, b) ==
  Bytes([i \in 1..Len(buf) |->
     IF i # p THEN buf[i]
     ELSE IF (buf[i] \div (2 ^ b)) % 2 = 1 THEN buf[i] - (2 ^ b) ELSE buf[i] + (2 ^ b)])

\* The other requests drawn: what a client that differs from the mirror in
\* one way sends for (v, k, r, pair).
VariantRequest(v, k, r, pair, variant) ==
  LET pt == JsonStringify(v)
      encData == ClientEncData(pt, k, r)
      ct == GcmEncrypt(k, r, pt)
      encKey == RsaWrap(pair, k)
      env == EnvelopeOf(encData, encKey, r)
      kind == variant[1]
  IN
  CASE kind = "plain" -> [top |-> env, data |-> << >>]
    [] kind = "nested" -> [top |-> NoFields, data |-> << env >>]
    \* the key is an empty string at the top level and set under data
    [] kind = "mixed" ->
         [top |-> [env EXCEPT !.encryptedAesKey = Str(<< >>), !.initialVector = Undefined],
          data |-> << [env EXCEPT !.encryptedFlowData = Undefined] >>]
    \* one field undefined, or an empty string, and no body.data
    [] kind = "drop" -> [top |-> [env EXCEPT ![variant[2]] = Undefined], data |-> << >>]
    [] kind = "empty" -> [top |-> [env EXCEPT ![variant[2]] = Str(<< >>)], data |-> << >>]
    \* one field missing at the top level and under data
    [] kind = "dropBoth" ->
         [top |-> [env EXCEPT ![variant[2]] = Str(<< >>)],
          data |-> << [env EXCEPT ![variant[2]] = Undefined] >>]
    [] kind = "flip" ->
         [top |-> EnvelopeOf(FlipBit(encData, variant[2], variant[3]), encKey, r),
          data |-> << >>]
    \* the tag cut to its first variant[2] bytes
    [] kind = "shortTag" ->
         [top |-> EnvelopeOf(ct \o SubSeq(GcmTag(k, r, ct), 1, variant[2]), encKey, r),
          data |-> << >>]
    \* only the first variant[2] bytes of ciphertext and tag
    [] kind = "cut" ->
         [top |-> EnvelopeOf(SubSeq(encData, 1, variant[2]), encKey, r), data |-> << >>]
    \* "=": a string that is not empty and decodes to no bytes
    [] kind = "noBytes" ->
         [top |-> [env EXCEPT ![variant[2]] = Str(<< 64 >>)], data |-> << >>]
    \* characters outside the alphabet between the legal ones
    [] kind = "junk" ->
         [top |-> [env EXCEPT ![variant[2]] = Str(<< 65 >> \o env[variant[2]].s \o << 65 >>)],
          data |-> << >>]
    \* four more bytes after the IV the client encrypted with
    [] kind = "ivExtra" ->
         [top |-> EnvelopeOf(encData, encKey, r \o << 1, 2, 3, 4 >>), data |-> << >>]
    \* a clear text that is no JSON: the text of v without its last byte,
    \* then a byte that is no UTF-8
    [] kind = "notJson" ->
         [top |-> EnvelopeOf(ClientEncData(SubSeq(pt, 1, Len(pt) - 1) \o << 255 >>, k, r),
                             encKey, r),
          data |-> << >>]
    \* white space around the text of v
    [] kind = "spaced" ->
         [top |-> EnvelopeOf(ClientEncData(<< 32 >> \o pt \o << 10 >>, k, r), encKey, r),
          data |-> << >>]

\* ------------------------------------------------------------ inputs drawn

KeyDate == << 100, 97, 116, 101 >>
KeyType == << 116, 121, 112, 101 >>
KeyStartIso == << 115, 116, 97, 114, 116, 73, 115, 111 >>
KeyEndIso == << 101, 110, 100, 73, 115, 111 >>
KeyWaTo == << 119, 97, 84, 111 >>

\* {"date":"2024-05-01","type":"A"}
DatePayload ==
  JObj(<< << KeyDate, JStr(<< 50, 48, 50, 52, 45, 48, 53, 45, 48, 49 >>) >>,
          << KeyType, JStr(<< 65 >>) >> >>)

\* {"startIso":"2024-05-01T10:00","endIso":"2024-05-01T11:00","waTo":"573001112233"}
BookingPayload ==
  JObj(<< << KeyStartIso,
             JStr(<< 50, 48, 50, 52, 45, 48, 53, 45, 48, 49, 84, 49, 48, 58, 48, 48 >>) >>,
          << KeyEndIso,
             JStr(<< 50, 48, 50, 52, 45, 48, 53, 45, 48, 49, 84, 49, 49, 58, 48, 48 >>) >>,
          << KeyWaTo, JStr(<< 53, 55, 51, 48, 48, 49, 49, 49, 50, 50, 51, 51 >>) >> >>)

\* [1,null] is eight bytes of text
PairPayload == JArr(<< JNum(1), JNull >>)

JsonValues ==
  { DatePayload, BookingPayload, PairPayload, JNull, JNum(120), JBool(FALSE),
    JStr(<< 104, 105 >>), JObj(<< >>), JArr(<< JObj(<< << KeyType, JNum(7) >> >>) >>) }

Key1 == Bytes([i \in 1..16 |-> i])
Key2 == Bytes([i \in 1..16 |-> 255 - (13 * i)])
Key15 == Bytes([i \in 1..15 |-> 40 + i])
AesKeys == { Key1, Key2 }

Iv1 == Bytes([i \in 1..16 |-> (16 * i) - 1])
Iv2 == Bytes([i \in 1..16 |-> IF i = 1 THEN 0 ELSE IF i = 16 THEN 255 ELSE 3 * i])
Iv12 == Bytes([i \in 1..12 |-> 100 + i])
Iv1Byte == << 7 >>
RequestIvs == { Iv1, Iv2 }

FieldNames == { "encryptedFlowData", "encryptedAesKey", "initialVector" }

Variants ==
  { << "plain" >>, << "nested" >>, << "mixed" >>, << "ivExtra" >>, << "notJson" >>,
    << "spaced" >> }
  \cup { << kind, f >> : kind \in { "drop", "empty", "dropBoth", "noBytes", "junk" },
                         f \in FieldNames }
  \cup { << "shortTag", n >> : n \in { 0, 4, 6, 8, 12, 15 } }
  \cup { << "cut", n >> : n \in { 1, 4, 8, 15, 16, 17 } }

EnvOk == [path |-> TRUE, file |-> "srv", pass |-> ""]

\* every single-bit change of the ciphertext and tag of two requests
FlipInputs ==
  { [v |-> v, k |-> Key1, r |-> Iv1, pair |-> "srv", variant |-> << "flip", p, b >>, env |-> EnvOk] :
      v \in { PairPayload }, p \in 1..(8 + 16), b \in 0..7 }
  \cup
  { [v |-> v, k |-> Key2, r |-> Iv12, pair |-> "srv", variant |-> << "flip", p, b >>, env |-> EnvOk] :
      v \in { JNull }, p \in 1..(4 + 16), b \in 0..7 }

CodecInputs ==
  { [v |-> v, k |-> k, r |-> r, pair |-> "srv", variant |-> << "plain" >>, env |-> e] :
      v \in JsonValues, k \in AesKeys, r \in RequestIvs, e \in Envs }
  \cup
  { [v |-> v, k |-> k, r |-> r, pair |-> pair, variant |-> variant, env |-> EnvOk] :
      v \in JsonValues, k \in AesKeys \cup { Key15 },
      r \in RequestIvs \cup { Iv12, Iv1Byte },
      pair \in { "srv", "other" }, variant \in Variants }
  \cup FlipInputs

\* ------------------------------------------------------------ handlers' helpers

KeyScreen == << 115, 99, 114, 101, 101, 110 >>
KeyData == << 100, 97, 116, 97 >>
KeyMessage == << 109, 101, 115, 115, 97, 103, 101 >>

\* computeSlots: the starts, in minutes after midnight, of the slots of a
\* day that runs from 09:00 to 18:00, one every 30 minutes while the slot
\* still ends by 18:00
RECURSIVE SlotsFrom(_, _, _)
SlotsFrom(cursor, duration, end) ==
  IF cursor + duration <= end
  THEN << cursor >> \o SlotsFrom(cursor + 30, duration, end)
  ELSE << >>

\* DateTime.fromISO(date) is valid: a string yyyy-mm-dd (the one date form
\* drawn here); anything else, undefined included, is an invalid DateTime
IsIsoDate(v) ==
  /\ v[1] = "str"
  /\ Len(v[2]) = 10
  /\ \A i \in 1..10 : IF i \in {5, 8} THEN v[2][i] = 45 ELSE IsDigit(v[2][i])

\* The slots of the day asked for: each a DateTime, << date, minutes >>.
\* With an invalid day every comparison of the loop is false: no slot.
computeSlots(payload) ==
  LET duration ==
        IF HasMember(payload, KeyType) /\ Member(payload, KeyType) = JStr(<< 65 >>) THEN 45
        ELSE IF HasMember(payload, KeyType) /\ Member(payload, KeyType) = JStr(<< 66 >>) THEN 60
        ELSE 90
  IN  IF HasMember(payload, KeyDate) /\ IsIsoDate(Member(payload, KeyDate))
      THEN LET starts == SlotsFrom(9 * 60, duration, 18 * 60) IN
           Bytes([i \in 1..Len(starts) |-> << Member(payload, KeyDate)[2], starts[i] >>])
      ELSE << >>

TwoDigits(n) == << 48 + (n \div 10), 48 + (n % 10) >>

\* dt.toISO() of a slot: the date, 'T', the hour and the minute (the
\* seconds and the zone offset, the same for every slot, are left out)
SlotIso(dt) ==
  JStr(dt[1] \o << 84 >> \o TwoDigits(dt[2] \div 60) \o << 58 >> \o TwoDigits(dt[2] % 60))

\* { screen: 'SLOTS', data: { availableSlots: slots.map((dt) => dt.toISO()) } }
SlotsScreen(slots) ==
  JObj(<< << KeyScreen, JStr(<< 83, 76, 79, 84, 83 >>) >>,
          << KeyData,
             JObj(<< << << 97, 118, 97, 105, 108, 97, 98, 108, 101, 83, 108, 111, 116, 115 >>,
                        JArr([i \in 1..Len(slots) |-> SlotIso(slots[i])]) >> >>) >> >>)

\* { screen: 'CLOSE', data: { ok: true } }
CloseScreen ==
  JObj(<< << KeyScreen, JStr(<< 67, 76, 79, 83, 69 >>) >>,
          << KeyData, JObj(<< << << 111, 107 >>, JBool(TRUE) >> >>) >> >>)

\* the message of a catch block: 'data-exchange failed' / 'complete failed'
FailedMessage(ep) ==
  IF ep = "data-exchange" THEN << 100, 97, 116, 97, 45, 101, 120, 99, 104, 97, 110, 103, 101, 32, 102, 97, 105, 108, 101, 100 >>
  ELSE << 99, 111, 109, 112, 108, 101, 116, 101, 32, 102, 97, 105, 108, 101, 100 >>

ErrorScreenWithCause(ep, e) ==
  JObj(<< << KeyScreen, JStr(<< 69, 82, 82, 79, 82 >>) >>,
          << KeyData, JObj(<< << KeyMessage, JStr(FailedMessage(ep)) >>,
                              << << 101, 114, 114, 111, 114 >>,
                                 JNum(IF e = "Missing encrypted fields" THEN 1 ELSE 2) >> >>) >> >>)

\* catch (e): { screen: 'ERROR', data: { message: '... failed' } }; e, the
\* error caught, is only logged
ErrorScreen(ep, e) ==
  JObj(<< << KeyScreen, JStr(<< 69, 82, 82, 79, 82 >>) >>,
          << KeyData, JObj(<< << KeyMessage, JStr(FailedMessage(ep)) >> >>) >> >>)

\* res.status(code).json(...): the body is an encrypted envelope or a
\* clear screen
NoEnvelope == [encryptedFlowData |-> << >>, initialVector |-> << >>]
EnvelopeResponse(encrypted) ==
  [status |-> 200, kind |-> "envelope", envelope |-> encrypted, screen |-> JNull]
ScreenResponse(screen) ==
  [status |-> 200, kind |-> "screen", envelope |-> NoEnvelope, screen |-> screen]

\* payload.waTo etc.: the member, or undefined
Undef == << "undefined" >>
Prop(payload, k) == IF HasMember(payload, k) THEN Member(payload, k) ELSE Undef

sendTextTwice(id, to, start, end) ==
  << [req |-> id, to |-> to, start |-> start, end |-> end],
     [req |-> id, to |-> to, start |-> start, end |-> end] >>

\* sendText(to, text) -> waPOST('/messages', ...): the one POST it makes.
\* The text is fixed by the start and the end of the booking; req names the
\* handler call that made it.
sendText(id, to, start, end) ==
  << [req |-> id, to |-> to, start |-> start, end |-> end] >>

\* ------------------------------------------------------------ state

\* the most handler calls in flight at once
MaxReq == 2
ReqIds == 1..MaxReq

VARIABLES
  env,       \* the key source (fixed while the process runs)
  keyReads,  \* calls of fs.readFileSync since the process started
  reqs,      \* per handler call: where it is, its request, what it awaits
  locals,    \* per scope: the handler's const { payload, aesKey, iv }
  sent,      \* the POSTs made to the messaging API, in order
  call       \* a call of the codec on its own

vars == << env, keyReads, reqs, locals, sent, call >>

NoUnwrap == Thrown("not called", << >>, 0, << >>, << >>, << >>, << >>)
NoWrap == [status |-> "not called", error |-> "none", ret |-> << >>, nonce |-> << >>]
NoBody == [top |-> NoFields, data |-> << >>]
NoLocals == [payload |-> Undef, aesKey |-> << >>, iv |-> << >>]

IdleReq ==
  [pc |-> "idle", ep |-> "none", body |-> NoBody, un |-> NoUnwrap, wr |-> NoWrap,
   sendResult |-> "none", slots |-> << >>, responses |-> << >>]

NoCall ==
  [phase |-> "none", d |-> [v |-> JNull, k |-> << >>, r |-> << >>, pair |-> "srv",
                            variant |-> << "plain" >>, env |-> EnvOk],
   body |-> NoBody, obj |-> JNull, un |-> NoUnwrap, wr |-> NoWrap]

\* ------------------------------------------------------------ the codec on its own

InitCodec ==
  /\ \E d \in CodecInputs :
       /\ env = d.env
       /\ call = [NoCall EXCEPT !.phase = "input", !.d = d,
                                !.body = VariantRequest(d.v, d.k, d.r, d.pair, d.variant)]
  /\ keyReads = 0
  /\ reqs = [id \in ReqIds |-> IdleReq]
  /\ locals = [id \in ReqIds |-> NoLocals]
  /\ sent = << >>

\* unwrapFlowRequest(body)
ApplyUnwrap ==
  /\ call.phase = "input"
  /\ LET un == unwrapFlowRequest(call.body, env) IN
       /\ call' = [call EXCEPT !.phase = "unwrapped", !.un = un]
       /\ keyReads' = keyReads + un.reads
  /\ UNCHANGED << env, reqs, locals, sent >>

ResponseObjects == { CloseScreen, ErrorScreen("complete", "none") }

\* wrapFlowResponse(obj, k, r) on the key and the IV of the input
ApplyWrap ==
  /\ call.phase = "input"
  /\ \E obj \in ResponseObjects :
       call' = [call EXCEPT !.phase = "wrapped", !.obj = obj,
                            !.wr = wrapFlowResponse(obj, call.d.k, call.d.r)]
  /\ UNCHANGED << env, keyReads, reqs, locals, sent >>

\* wrapFlowResponse(obj, aesKey, iv) on what unwrapFlowRequest returned
ApplyWrapReturned ==
  /\ call.phase = "unwrapped"
  /\ call.un.status = "ok"
  /\ \E obj \in ResponseObjects :
       call' = [call EXCEPT !.phase = "replied", !.obj = obj,
                            !.wr = wrapFlowResponse(obj, call.un.ret[1].aesKey,
                                                    call.un.ret[1].iv)]
  /\ UNCHANGED << env, keyReads, reqs, locals, sent >>

NextCodec == ApplyUnwrap \/ ApplyWrap \/ ApplyWrapReturned

SpecCodec == InitCodec /\ [][NextCodec]_vars

\* ------------------------------------------------------------ the handlers

Endpoints == { "data-exchange", "complete" }

\* the requests drawn for the handlers: two good ones with their own key,
\* IV and payload, a null payload under a 12-byte IV, a changed tag bit, a
\* missing field
FlowBodies ==
  { ClientRequest(DatePayload, Key1, Iv1, "srv"),
    ClientRequest(BookingPayload, Key2, Iv2, "srv"),
    ClientRequest(JNull, Key1, Iv12, "srv"),
    VariantRequest(BookingPayload, Key2, Iv2, "srv", << "flip", 90, 3 >>),
    VariantRequest(DatePayload, Key1, Iv1, "srv", << "drop", "initialVector" >>) }

\* the key sources drawn for the handlers: the server's key, no path set
\* (loadPrivateKey throws), another pair's key (privateDecrypt throws)
HandlerEnvs ==
  { EnvOk,
    [path |-> FALSE, file |-> "srv", pass |-> ""],
    [path |-> TRUE, file |-> "other", pass |-> ""] }

\* the state once app.listen has returned: nothing read, nothing in flight
Init ==
  /\ env \in HandlerEnvs
  /\ keyReads = 0
  /\ reqs = [id \in ReqIds |-> IdleReq]
  /\ locals = [id \in ReqIds |-> NoLocals]
  /\ sent = << >>
  /\ call = NoCall

HandlerScopeShared(id) == 1

\* the scope of a handler call: const { payload, aesKey, iv } is declared
\* inside the handler, so every call has its own
HandlerScope(id) == id

\* the catch block: one response, and the handler returns
Catch(id, e) ==
  reqs' = [reqs EXCEPT ![id].pc = "done",
                       ![id].responses = Append(@, ScreenResponse(ErrorScreen(reqs[id].ep, e)))]

\* Express calls the handler, which calls unwrapFlowRequest(req.body):
\* an async function with no await of its own, it runs to its end at once
\* and the handler waits for its promise.
Receive(id) ==
  /\ reqs[id].pc = "idle"
  /\ id > 1 => reqs[id - 1].pc # "idle"
  /\ \E body \in FlowBodies :
       LET un == unwrapFlowRequest(body, env) IN
         /\ \E ep \in Endpoints :
              reqs' = [reqs EXCEPT ![id].pc = "awaitUnwrap", ![id].ep = ep,
                                   ![id].body = body, ![id].un = un]
         /\ keyReads' = keyReads + un.reads
  /\ UNCHANGED << env, locals, sent >>
  /\ UNCHANGED call

\* the promise of unwrapFlowRequest settles.  Rejected: the catch block.
\* Fulfilled: the three constants are bound; /flows/data-exchange calls
\* getBusinessHours(), /flows/complete reads payload.startIso and
\* payload.endIso (a TypeError when payload is null) and calls sendText.
AfterUnwrap(id) ==
  /\ reqs[id].pc = "awaitUnwrap"
  /\ IF reqs[id].un.status # "ok"
     THEN /\ Catch(id, reqs[id].un.error)
          /\ UNCHANGED << locals, sent >>
     ELSE LET got == reqs[id].un.ret[1] IN
          /\ locals' = [locals EXCEPT ![HandlerScope(id)] = got]
          /\ IF reqs[id].ep = "data-exchange"
             THEN /\ reqs' = [reqs EXCEPT ![id].pc = "awaitHours"]
                  /\ UNCHANGED sent
             ELSE IF got.payload = JNull
             THEN /\ Catch(id, "TypeError")
                  /\ UNCHANGED sent
             ELSE /\ reqs' = [reqs EXCEPT ![id].pc = "awaitSend"]
                  /\ sent' = sent \o sendText(id, Prop(got.payload, KeyWaTo),
                                              Prop(got.payload, KeyStartIso),
                                              Prop(got.payload, KeyEndIso))
  /\ UNCHANGED << env, keyReads, call >>

\* getBusinessHours() settles: the fetch or r.json() failed (the catch
\* block), or the profile came; then payload.date is read (a TypeError when
\* payload is null) and computeSlots is called.
HoursSettle(id) ==
  /\ reqs[id].pc = "awaitHours"
  /\ \E ok \in BOOLEAN :
       IF ~ok THEN Catch(id, "fetch failed")
       ELSE IF locals[HandlerScope(id)].payload = JNull THEN Catch(id, "TypeError")
       ELSE reqs' = [reqs EXCEPT ![id].pc = "awaitSlots",
                                 ![id].slots = computeSlots(locals[HandlerScope(id)].payload)]
  /\ UNCHANGED << env, keyReads, locals, sent, call >>

\* computeSlots has returned: the SLOTS screen is built and wrapFlowResponse
\* is called with the key and the IV of the scope.
AfterSlots(id) ==
  /\ reqs[id].pc = "awaitSlots"
  /\ LET mine == locals[HandlerScope(id)] IN
       reqs' = [reqs EXCEPT ![id].pc = "awaitWrap",
                            ![id].wr = wrapFlowResponse(SlotsScreen(reqs[id].slots),
                                                        mine.aesKey, mine.iv)]
  /\ UNCHANGED << env, keyReads, locals, sent, call >>

\* sendText settles: the fetch failed (the catch block), or a response came
\* (one that is not ok is only logged); then wrapFlowResponse is called
\* with the CLOSE screen.
SendSettle(id) ==
  /\ reqs[id].pc = "awaitSend"
  /\ \E result \in { "ok", "notOk", "rejected" } :
       IF result = "rejected"
       THEN Catch(id, "fetch failed")
       ELSE LET mine == locals[HandlerScope(id)] IN
            reqs' = [reqs EXCEPT ![id].pc = "awaitWrap", ![id].sendResult = result,
                                 ![id].wr = wrapFlowResponse(CloseScreen, mine.aesKey, mine.iv)]
  /\ UNCHANGED << env, keyReads, locals, sent, call >>

\* the promise of wrapFlowResponse settles: res.status(200).json(encrypted),
\* or the catch block
AfterWrap(id) ==
  /\ reqs[id].pc = "awaitWrap"
  /\ IF reqs[id].wr.status # "ok"
     THEN Catch(id, reqs[id].wr.error)
     ELSE reqs' = [reqs EXCEPT ![id].pc = "done",
                               ![id].responses = Append(@, EnvelopeResponse(reqs[id].wr.ret[1]))]
  /\ UNCHANGED << env, keyReads, locals, sent, call >>

Next ==
  \E id \in ReqIds :
    \/ Receive(id)
    \/ AfterUnwrap(id)
    \/ HoursSettle(id)
    \/ AfterSlots(id)
    \/ SendSettle(id)
    \/ AfterWrap(id)

Spec == Init /\ [][Next]_vars

\* ------------------------------------------------------------ properties: the codec

Unwrapped == call.phase \in { "unwrapped", "replied" }

\* the request is the one the mirroring client builds for the server's key
\* pair from a value, a 16-byte key and a 16-byte IV, and the key source
\* holds the server's key
MirrorCase ==
  /\ Unwrapped
  /\ Len(call.d.k) = 16
  /\ Len(call.d.r) = 16
  /\ call.body = ClientRequest(call.d.v, call.d.k, call.d.r, "srv")
  /\ KeyAvailable(env)

\* C1: unwrapFlowRequest applied to the request a mirroring client builds
\* from a JSON value v, a 16-byte key k and a 16-byte IV r for the server's
\* key pair succeeds and returns exactly payload = v, aesKey = k, iv = r.
RoundTrip ==
  MirrorCase =>
    /\ call.un.status = "ok"
    /\ call.un.ret = << [payload |-> call.d.v, aesKey |-> call.d.k, iv |-> call.d.r] >>

RoundTripWitness ==
  /\ MirrorCase
  /\ call.d.v = BookingPayload
  /\ call.d.k = Key2
  /\ call.un.status = "ok"

BitOf(n, j) == (n \div (2 ^ j)) % 2

EveryBitFlipped(a, b) ==
  /\ Len(a) = Len(b)
  /\ \A i \in 1..Len(a) : \A j \in 0..7 : BitOf(a[i], j) # BitOf(b[i], j)

\* the IV wrapFlowResponse was given
WrappedIv == IF call.phase = "wrapped" THEN call.d.r ELSE call.un.ret[1].iv
WrappedKey == IF call.phase = "wrapped" THEN call.d.k ELSE call.un.ret[1].aesKey

WrapCase ==
  /\ call.phase \in { "wrapped", "replied" }
  /\ call.wr.status = "ok"
  /\ Len(WrappedIv) = 16

\* C2: for a 16-byte request IV r, the initialVector of the envelope that
\* wrapFlowResponse returns decodes to r with every bit of every byte
\* flipped, that flipped value is the nonce the response is encrypted
\* under, and flipping it once more gives r.
IvBinding ==
  WrapCase =>
    LET sentIv == BufferFromBase64(call.wr.ret[1].initialVector)
        data == BufferFromBase64(call.wr.ret[1].encryptedFlowData)
        ct == SubSeq(data, 1, Len(data) - 16)
        tag == SubSeq(data, Len(data) - 15, Len(data))
    IN  /\ EveryBitFlipped(sentIv, WrappedIv)
        /\ call.wr.nonce = sentIv
        /\ tag = GcmTag(WrappedKey, sentIv, ct)
        /\ GcmDecrypt(WrappedKey, sentIv, ct) = JsonStringify(call.obj)
        /\ ResponseIv(sentIv) = WrappedIv

IvBindingWitness ==
  /\ WrapCase
  /\ call.phase = "replied"
  /\ WrappedIv = Iv2
  /\ call.obj = CloseScreen

\* the tag handed to the decipher is the tag of the ciphertext under the
\* key and the IV handed to it
TagVerifies(un) == un.tag = SubSeq(GcmTag(un.key, un.iv, un.ciphertext), 1, Len(un.tag))

Did(un, op) == \E i \in 1..Len(un.ops) : un.ops[i] = op

\* C3: when the tag does not verify for the ciphertext under the recovered
\* key and IV, as after any single-bit change of the ciphertext or the tag,
\* unwrapFlowRequest throws and returns no payload, key or iv; whatever it
\* returns, it returns after a tag check that passed.
TamperIsHardFailure ==
  Unwrapped =>
    /\ (Did(call.un, "final") /\ ~TagVerifies(call.un)) =>
         (call.un.status = "error" /\ call.un.ret = << >>)
    /\ call.d.variant[1] = "flip" =>
         /\ call.un.status = "error"
         /\ call.un.error = "Unsupported state or unable to authenticate data"
         /\ call.un.ret = << >>
    /\ call.un.status = "ok" => (Did(call.un, "final") /\ TagVerifies(call.un))

TamperWitness ==
  /\ Unwrapped
  /\ call.d.variant = << "flip", 24, 0 >>
  /\ Did(call.un, "final")
  /\ ~TagVerifies(call.un)
  /\ call.un.status = "error"

\* the field is missing or empty at the top level and under body.data
FieldAbsent(body, f) ==
  /\ ~Truthy(body.top[f])
  /\ body.data = << >> \/ ~Truthy(body.data[1][f])

\* C4: when one of the three fields is missing or empty at the top level
\* and under body.data, unwrapFlowRequest throws the missing-fields error
\* before it loads the private key and before any unwrap or decryption.
FieldPresence ==
  (Unwrapped /\ \E f \in FieldNames : FieldAbsent(call.body, f)) =>
    /\ call.un.status = "error"
    /\ call.un.error = "Missing encrypted fields"
    /\ call.un.ret = << >>
    /\ call.un.ops = << >>
    /\ call.un.reads = 0
    /\ keyReads = 0

FieldPresenceWitness ==
  /\ Unwrapped
  /\ call.d.variant = << "dropBoth", "encryptedAesKey" >>
  /\ FieldAbsent(call.body, "encryptedAesKey")
  /\ ~FieldAbsent(call.body, "initialVector")
  /\ call.un.error = "Missing encrypted fields"

\* C8: whenever unwrapFlowRequest runs the authenticated decryption, the
\* tag it hands over is 16 bytes, the last 16 of the decoded
\* encryptedFlowData, and the ciphertext is the bytes before them; decoded
\* data shorter than 16 bytes is rejected at the split, before the decipher
\* is made.
TagPlacement ==
  (Unwrapped /\ Did(call.un, "privateDecrypt")) =>
    LET encData == BufferFromBase64(RequestField(call.body, "encryptedFlowData").s) IN
    /\ Did(call.un, "setAuthTag") =>
         /\ Len(call.un.tag) = 16
         /\ call.un.tag = SubSeq(encData, Len(encData) - 15, Len(encData))
    /\ Did(call.un, "update") =>
         call.un.ciphertext = SubSeq(encData, 1, Len(encData) - 16)
    /\ Len(encData) < 16 =>
         (call.un.status = "error" /\ ~Did(call.un, "createDecipheriv"))

\* C9: whenever unwrapFlowRequest succeeds, the iv it returns, which is the
\* nonce it decrypted under, is exactly 16 bytes long.
IvNormalized ==
  (Unwrapped /\ call.un.status = "ok") =>
    /\ Len(call.un.ret[1].iv) = 16
    /\ call.un.iv = call.un.ret[1].iv

\* ------------------------------------------------------------ properties: the handlers

\* the request of handler call id did not decode
DecodeFailed(id) == reqs[id].pc # "idle" /\ reqs[id].un.status = "error"

\* C5: a request whose decode fails gets exactly one response, and two
\* such requests to the same endpoint get the same response, whatever the
\* step each failed at.
FailureIndistinguishable ==
  /\ \A id \in ReqIds :
       DecodeFailed(id) =>
         /\ Len(reqs[id].responses) <= 1
         /\ reqs[id].pc = "done" <=> Len(reqs[id].responses) = 1
         /\ reqs[id].pc \in { "awaitUnwrap", "done" }
  /\ \A a, b \in ReqIds :
       ( /\ DecodeFailed(a) /\ DecodeFailed(b)
         /\ reqs[a].pc = "done" /\ reqs[b].pc = "done"
         /\ reqs[a].ep = reqs[b].ep ) =>
       reqs[a].responses = reqs[b].responses

FailureIndistinguishableWitness ==
  /\ DecodeFailed(1) /\ DecodeFailed(2)
  /\ reqs[1].pc = "done" /\ reqs[2].pc = "done"
  /\ reqs[1].ep = reqs[2].ep
  /\ reqs[1].un.error = "Missing encrypted fields"
  /\ reqs[2].un.error = "Unsupported state or unable to authenticate data"
  /\ reqs[1].responses = reqs[2].responses

\* C6: the key source is read once, at startup: the count of reads never
\* passes one and no handler call reads it.
OneTimeKeyLoad ==
  /\ keyReads <= 1
  /\ \A id \in ReqIds : reqs[id].un.reads = 0

\* the screen that answers the request of handler call id
OwnScreen(id) ==
  IF reqs[id].ep = "data-exchange"
  THEN SlotsScreen(computeSlots(reqs[id].un.ret[1].payload))
  ELSE CloseScreen

MessagesOf(id) == SelectSeq(sent, LAMBDA m : m.req = id)

\* C7: with handler calls interleaved at every await, the response of each
\* is encrypted under the key its own request carried and the complement of
\* its own request's IV, holds the screen computed from its own payload,
\* and its confirmation goes to its own payload's recipient.
CallIndependence ==
  \A id \in ReqIds :
    /\ reqs[id].wr.status = "ok" =>
         LET own == reqs[id].un.ret[1]
             sentIv == BufferFromBase64(reqs[id].wr.ret[1].initialVector)
             data == BufferFromBase64(reqs[id].wr.ret[1].encryptedFlowData)
             ct == SubSeq(data, 1, Len(data) - 16)
             tag == SubSeq(data, Len(data) - 15, Len(data))
         IN  /\ reqs[id].un.status = "ok"
             /\ EveryBitFlipped(sentIv, own.iv)
             /\ tag = GcmTag(own.aesKey, sentIv, ct)
             /\ GcmDecrypt(own.aesKey, sentIv, ct) = JsonStringify(OwnScreen(id))
    /\ \A i \in 1..Len(reqs[id].responses) :
         reqs[id].responses[i].kind = "envelope" =>
           reqs[id].responses[i].envelope = reqs[id].wr.ret[1]
    /\ \A i \in 1..Len(MessagesOf(id)) :
         /\ reqs[id].un.status = "ok"
         /\ MessagesOf(id)[i].to = Prop(reqs[id].un.ret[1].payload, KeyWaTo)

CallIndependenceWitness ==
  /\ reqs[1].pc = "done" /\ reqs[2].pc = "awaitWrap"
  /\ reqs[1].wr.status = "ok" /\ reqs[2].wr.status = "ok"
  /\ reqs[1].un.ret[1].aesKey # reqs[2].un.ret[1].aesKey
  /\ locals[2].aesKey = Key1
  /\ reqs[1].responses[1].kind = "envelope"

\* C10: /flows/complete issues the confirmation at most once per request
\* and only for a request that decoded; a request whose decode failed, and
\* /flows/data-exchange, issue none; the CLOSE response is made only after
\* the send has returned.
ConfirmationOrder ==
  \A id \in ReqIds :
    LET mine == Len(MessagesOf(id)) IN
    /\ mine <= 1
    /\ mine = 1 =>
         /\ reqs[id].ep = "complete"
         /\ reqs[id].un.status = "ok"
         /\ reqs[id].pc \in { "awaitSend", "awaitWrap", "done" }
    /\ DecodeFailed(id) => mine = 0
    /\ (reqs[id].ep = "complete" /\ reqs[id].wr # NoWrap) =>
         /\ mine = 1
         /\ reqs[id].sendResult \in { "ok", "notOk" }
    /\ reqs[id].pc = "awaitSend" => (mine = 1 /\ reqs[id].wr = NoWrap)

ConfirmationOrderWitness ==
  /\ reqs[1].ep = "complete" /\ reqs[1].pc = "done"
  /\ reqs[1].wr.status = "ok"
  /\ reqs[1].responses = << EnvelopeResponse(reqs[1].wr.ret[1]) >>
  /\ Len(MessagesOf(1)) = 1
  /\ reqs[2].ep = "complete" /\ reqs[2].pc = "done" /\ DecodeFailed(2)
  /\ Len(sent) = 1

====
